---- MODULE Spec2Model ----
(***************************************************************************)
(* Verification model of the non-Markovianity pipeline of wcy137/550_final *)
(*                                                                         *)
(*   src/post_proc_funcs.py      extract_channel, compute_intmdt_maps,     *)
(*                               compute_Drhp                              *)
(*   src/non_markovianity_test.py trace_norm, trace_distance, the two      *)
(*                               non-Markovianity measures                 *)
(*   src/gen_funcs.py            gen_delay_circ_ls                         *)
(*                                                                         *)
(* Every function is a small sequential program: pc is its position, args  *)
(* its parameters, loc its local variables (named as in the source) and    *)
(* ret the value it returns.  Each function has its own specification      *)
(* (SpecIntmdt, SpecExtract, ...), whose Init draws the arguments from     *)
(* bounded sets.                                                           *)
(*                                                                         *)
(* Numbers are exact: a matrix is a tuple of rows of integers and a scalar *)
(* result is a rational [n |-> numerator, d |-> denominator] in lowest     *)
(* terms (d = 0 stands for numpy's non-finite result of a division by      *)
(* zero).  Python indices are kept 0-based in i and j; the element with    *)
(* Python index k of a list is element k + 1 of the sequence.              *)
(***************************************************************************)
EXTENDS Integers, Sequences, FiniteSets, TLC

VARIABLES pc, args, loc, ret

vars == <<pc, args, loc, ret>>

NoValue == "none"

----------------------------------------------------------------------------
(* Sequences of bounded length.                                            *)

SeqsUpTo(S, n) == UNION {[1..k -> S] : k \in 0..n}

NonEmptySeqsUpTo(S, n) == UNION {[1..k -> S] : k \in 1..n}

Abs(x) == IF x < 0 THEN -x ELSE x

Max2(x, y) == IF x >= y THEN x ELSE y

RECURSIVE Pow(_, _)
Pow(b, e) == IF e = 0 THEN 1 ELSE b * Pow(b, e - 1)

\* The integer square root of a perfect square below Pow(2, 12).
Isqrt(x) == CHOOSE r \in 0..64 : r * r = x

IsSquare(x) == \E r \in 0..64 : r * r = x

----------------------------------------------------------------------------
(* Exact rationals, standing for the floats of the source.                 *)

RECURSIVE GCD(_, _)
GCD(a, b) == IF b = 0 THEN a ELSE GCD(b, a % b)

Sign(x) == IF x > 0 THEN 1 ELSE IF x < 0 THEN -1 ELSE 0

\* n / d for d # 0, in lowest terms with a positive denominator.
Rat(n, d) ==
    LET g == GCD(Abs(n), Abs(d))
    IN  [n |-> Sign(d) * (n \div g), d |-> Abs(d) \div g]

RatInt(k) == [n |-> k, d |-> 1]

IsFinite(x) == x.d # 0

RatAdd(x, y) == Rat(x.n * y.d + y.n * x.d, x.d * y.d)

RatSub(x, y) == Rat(x.n * y.d - y.n * x.d, x.d * y.d)

RatMul(x, y) == Rat(x.n * y.n, x.d * y.d)

\* A numpy float64 division: x / 0 is -inf, nan or inf (here n = -1, 0, 1
\* over d = 0) and raises nothing.
RatDiv(x, y) ==
    IF y.n = 0 THEN [n |-> Sign(x.n), d |-> 0] ELSE Rat(x.n * y.d, x.d * y.n)

RatLe(x, y) == x.n * y.d <= y.n * x.d

RatLt(x, y) == x.n * y.d < y.n * x.d

RatMax(x, y) == IF RatLe(y, x) THEN x ELSE y

----------------------------------------------------------------------------
(* Square integer matrices: a tuple of n rows of n integers.               *)

Zeros(n) == [r \in 1..n |-> [c \in 1..n |-> 0]]

Identity(n) == [r \in 1..n |-> [c \in 1..n |-> IF r = c THEN 1 ELSE 0]]

RECURSIVE DotTo(_, _, _, _, _)
DotTo(A, B, r, c, k) ==
    IF k = 0 THEN 0 ELSE A[r][k] * B[k][c] + DotTo(A, B, r, c, k - 1)

MatMul(A, B) ==
    [r \in 1..Len(A) |-> [c \in 1..Len(A) |-> DotTo(A, B, r, c, Len(A))]]

MatSub(A, B) == [r \in 1..Len(A) |-> [c \in 1..Len(A) |-> A[r][c] - B[r][c]]]

MatAdd(A, B) == [r \in 1..Len(A) |-> [c \in 1..Len(A) |-> A[r][c] + B[r][c]]]

Transpose(A) == [r \in 1..Len(A) |-> [c \in 1..Len(A) |-> A[c][r]]]

RECURSIVE TraceTo(_, _)
TraceTo(A, k) == IF k = 0 THEN 0 ELSE A[k][k] + TraceTo(A, k - 1)

Trace(A) == TraceTo(A, Len(A))

RECURSIVE MatPow(_, _)
MatPow(A, e) == IF e = 0 THEN Identity(Len(A)) ELSE MatMul(A, MatPow(A, e - 1))

\* A without its row r and its column c.
Minor(A, r, c) ==
    [i \in 1..(Len(A) - 1) |->
        [j \in 1..(Len(A) - 1) |->
            A[IF i < r THEN i ELSE i + 1][IF j < c THEN j ELSE j + 1]]]

\* The determinant, expanded along the first row (the columns up to c).
RECURSIVE DetTo(_, _)
DetTo(A, c) ==
    IF Len(A) = 0 THEN IF c = 0 THEN 1 ELSE 0
    ELSE IF c = 0 THEN 0
    ELSE (IF c % 2 = 1 THEN 1 ELSE -1) * A[1][c]
            * DetTo(Minor(A, 1, c), IF Len(A) = 1 THEN 0 ELSE Len(A) - 1)
         + DetTo(A, c - 1)

Det(A) == DetTo(A, Len(A))

\* The matrix with a 1 in row r, column f[r], for every r with f[r] # 0.
PMat(f) == [r \in 1..Len(f) |-> [c \in 1..Len(f) |-> IF f[r] = c THEN 1 ELSE 0]]

\* The 0/1 matrices with at most one 1 in every row and every column.
PartialPerms(n) ==
    {PMat(f) : f \in {g \in [1..n -> 0..n] :
                        \A r, s \in 1..n : (r # s /\ g[r] # 0) => g[r] # g[s]}}

----------------------------------------------------------------------------
(* compute_intmdt_maps (src/post_proc_funcs.py).                           *)

MaxLen == 3

\* Superoperators of one qubit (4 x 4): the identity, a 3-cycle and a swap
\* of basis elements (which do not commute), the completely dephasing
\* channel diag(1, 0, 0, 1) (singular) and the X gate.
SuperOps ==
    { PMat(<<1, 2, 3, 4>>), PMat(<<2, 3, 1, 4>>), PMat(<<2, 1, 3, 4>>),
      PMat(<<1, 0, 0, 4>>), PMat(<<4, 3, 2, 1>>) }

\* SuperOp.num_qubits: the superoperator of q qubits is 4^q x 4^q.
NumQubits(S) == CHOOSE q \in 0..3 : Pow(4, q) = Len(S)

\* The Moore-Penrose pseudo-inverse of A: the one matrix X with A X A = A,
\* X A X = X, and A X and X A symmetric.
IsPinv(X, A) ==
    /\ MatMul(MatMul(A, X), A) = A
    /\ MatMul(MatMul(X, A), X) = X
    /\ Transpose(MatMul(A, X)) = MatMul(A, X)
    /\ Transpose(MatMul(X, A)) = MatMul(X, A)

PinvTable == [A \in SuperOps |-> CHOOSE X \in PartialPerms(Len(A)) : IsPinv(X, A)]

PinvForgotten(A) == A

\* np.linalg.pinv
Pinv(A) == PinvTable[A]

InnerBodyReversed(curr_applied_inv, S) == MatMul(Pinv(S), curr_applied_inv)

\* line 50: curr_applied_inv = curr_applied_inv @ np.linalg.pinv(superop_ls[j])
InnerBody(curr_applied_inv, S) == MatMul(curr_applied_inv, Pinv(S))

InitMapsIdentity(superop_ls, dim) ==
    [k \in 1..Len(superop_ls) |-> IF k = 1 THEN Identity(dim) ELSE 0]

\* lines 45-46: a list of as many 0s as there are inputs, its first element
\* then set to the first input.
InitMaps(superop_ls, dim) ==
    [k \in 1..Len(superop_ls) |-> IF k = 1 THEN superop_ls[1] ELSE 0]

InitIntmdt ==
    /\ pc = "start"
    /\ args \in {[superop_ls |-> s] : s \in SeqsUpTo(SuperOps, MaxLen)}
    /\ loc = <<>>
    /\ ret = NoValue

\* line 44 on an empty list: superop_ls[0] raises IndexError.
IntmdtRaise ==
    /\ pc = "start"
    /\ Len(args.superop_ls) = 0
    /\ pc' = "raised"
    /\ UNCHANGED <<args, loc, ret>>

\* lines 44-46, and the first value of i of the loop of line 47.
IntmdtInit ==
    /\ pc = "start"
    /\ Len(args.superop_ls) > 0
    /\ LET dim == Pow(2, NumQubits(args.superop_ls[1]) * 2)
       IN  loc' = [dim |-> dim,
                   intmdt_map_ls |-> InitMaps(args.superop_ls, dim),
                   i |-> 1, j |-> 0, curr_applied_inv |-> NoValue]
    /\ pc' = "outer"
    /\ UNCHANGED <<args, ret>>

\* lines 47-49: the loop goes on; curr_applied_inv starts as the identity.
IntmdtOuter ==
    /\ pc = "outer"
    /\ loc.i < Len(args.superop_ls)
    /\ loc' = [loc EXCEPT !.curr_applied_inv = Identity(loc.dim), !.j = 0]
    /\ pc' = "inner"
    /\ UNCHANGED <<args, ret>>

\* lines 49-50: one pass of the inner loop.
IntmdtInner ==
    /\ pc = "inner"
    /\ loc.j < loc.i
    /\ loc' = [loc EXCEPT
                 !.curr_applied_inv = InnerBody(@, args.superop_ls[loc.j + 1]),
                 !.j = @ + 1]
    /\ UNCHANGED <<pc, args, ret>>

\* line 51, and the next value of i.
IntmdtAssign ==
    /\ pc = "inner"
    /\ loc.j >= loc.i
    /\ loc' = [loc EXCEPT
                 !.intmdt_map_ls[loc.i + 1] =
                     MatMul(args.superop_ls[loc.i + 1], loc.curr_applied_inv),
                 !.i = @ + 1]
    /\ pc' = "outer"
    /\ UNCHANGED <<args, ret>>

\* line 52
IntmdtReturn ==
    /\ pc = "outer"
    /\ loc.i >= Len(args.superop_ls)
    /\ ret' = loc.intmdt_map_ls
    /\ pc' = "done"
    /\ UNCHANGED <<args, loc>>

NextIntmdt ==
    \/ IntmdtRaise
    \/ IntmdtInit
    \/ IntmdtOuter
    \/ IntmdtInner
    \/ IntmdtAssign
    \/ IntmdtReturn

SpecIntmdt == InitIntmdt /\ [][NextIntmdt]_vars

IsConstant(ls) == \A k \in 1..Len(ls) : ls[k] = ls[1]

IsInvertible(S) == Det(S) # 0

\* pinv(S_0) . pinv(S_1) ... pinv(S_{i-1}), the lower index on the left.
RECURSIVE ProdInvAscending(_, _)
ProdInvAscending(ls, i) ==
    IF i = 0 THEN Identity(Len(ls[1]))
    ELSE MatMul(ProdInvAscending(ls, i - 1), Pinv(ls[i]))

\* pinv(S_{i-1}) . pinv(S_{i-2}) ... pinv(S_0), the higher index on the left.
RECURSIVE ProdInvDescending(_, _)
ProdInvDescending(ls, i) ==
    IF i = 0 THEN Identity(Len(ls[1]))
    ELSE MatMul(Pinv(ls[i]), ProdInvDescending(ls, i - 1))

\* C1 as stated: on a constant sequence of an invertible S, every M_i with
\* i >= 1 equals S.
C1_AsStated ==
    (pc = "done" /\ IsConstant(args.superop_ls) /\ IsInvertible(args.superop_ls[1]))
        => \A i \in 1..(Len(ret) - 1) : ret[i + 1] = args.superop_ls[1]

\* C1 amended: on a constant sequence of an invertible S, M_i is S times the
\* i-th power of its inverse, that is M_i . S^i = S: M_1 is the identity,
\* and M_i is S only if S^i is the identity.
C1_ConstantSequence ==
    (pc = "done" /\ IsConstant(args.superop_ls) /\ IsInvertible(args.superop_ls[1]))
        => /\ \A i \in 1..(Len(ret) - 1) :
                MatMul(ret[i + 1], MatPow(args.superop_ls[1], i)) = args.superop_ls[1]
           /\ Len(ret) >= 2 => ret[2] = Identity(Len(args.superop_ls[1]))

C1_Witness ==
    /\ pc = "done"
    /\ Len(ret) = MaxLen
    /\ IsConstant(args.superop_ls)
    /\ IsInvertible(args.superop_ls[1])
    /\ MatPow(args.superop_ls[1], 2) # Identity(Len(args.superop_ls[1]))
    /\ ret[3] # args.superop_ls[1]

\* C2 as stated: M_i = S_i . (pinv(S_{i-1}) . ... . pinv(S_0)).
C2_AsStated ==
    pc = "done" =>
        \A i \in 1..(Len(ret) - 1) :
            ret[i + 1] = MatMul(args.superop_ls[i + 1],
                                ProdInvDescending(args.superop_ls, i))

\* C2 amended: M_i = S_i . (pinv(S_0) . pinv(S_1) . ... . pinv(S_{i-1})): the
\* pseudo-inverses are multiplied in increasing index order from the left,
\* also when the S_j do not commute.
C2_CompositionOrder ==
    pc = "done" =>
        \A i \in 1..(Len(ret) - 1) :
            ret[i + 1] = MatMul(args.superop_ls[i + 1],
                                ProdInvAscending(args.superop_ls, i))

C2_Witness ==
    /\ pc = "done"
    /\ Len(ret) >= 3
    /\ MatMul(Pinv(args.superop_ls[1]), Pinv(args.superop_ls[2]))
         # MatMul(Pinv(args.superop_ls[2]), Pinv(args.superop_ls[1]))
    /\ ret[3] # MatMul(args.superop_ls[3], ProdInvDescending(args.superop_ls, 2))

\* C3: a non-empty input returns a list of the input's length whose element
\* 0 is the input's element 0 (a one-element input returns itself); an empty
\* input raises and returns nothing.
C3_Shape ==
    /\ pc = "done" =>
          /\ Len(args.superop_ls) > 0
          /\ Len(ret) = Len(args.superop_ls)
          /\ ret[1] = args.superop_ls[1]
          /\ Len(args.superop_ls) = 1 => ret = args.superop_ls
    /\ pc = "raised" => (Len(args.superop_ls) = 0 /\ ret = NoValue)
    /\ Len(args.superop_ls) = 0 => pc \in {"start", "raised"}

C3_Witness ==
    /\ pc = "done"
    /\ Len(args.superop_ls) = 1
    /\ ret = args.superop_ls

----------------------------------------------------------------------------
(* extract_channel (src/post_proc_funcs.py).                               *)

MaxChildren == 2

MaxRows == 2

\* qiskit's conversion between the Choi matrix and the superoperator of a
\* channel on a d-dimensional system (both d^2 x d^2): with 0-based indices
\* a, b, c, e below d, the entry [d a + b][d c + e] of the one is the entry
\* [d e + b][d c + a] of the other.
Reshuffle(M) ==
    LET d == Isqrt(Len(M))
    IN  [R \in 1..Len(M) |->
            [C \in 1..Len(M) |->
                LET e == (R - 1) \div d
                    b == (R - 1) % d
                    c == (C - 1) \div d
                    a == (C - 1) % d
                IN  M[d * a + b + 1][d * c + e + 1]]]

\* SuperOp(curr_choi), line 24
SuperOp(choi) == Reshuffle(choi)

\* Choi(map), line 66
Choi(superop) == Reshuffle(superop)

\* Choi matrices a tomography analysis reports: those of the identity
\* channel and of the X gate.
ChoiValues == { Choi(PMat(<<1, 2, 3, 4>>)), Choi(PMat(<<4, 3, 2, 1>>)) }

\* The rows of the column 'value' of a child's analysis results; a child
\* whose tomography reported nothing has none.
AnalysisValues == SeqsUpTo(ChoiValues, MaxRows)

LastValue(value) == value[Len(value)]

\* lines 21-22: .iloc[0], the first row
FirstValue(value) == value[1]

LoopBodySkipping(proc_ls, value, vectorization) ==
    IF Len(value) = 0 THEN [raised |-> FALSE, proc_ls |-> proc_ls]
    ELSE [raised |-> FALSE,
          proc_ls |-> Append(proc_ls, IF vectorization
                                        THEN SuperOp(FirstValue(value))
                                        ELSE FirstValue(value))]

\* lines 21-27, one pass of the loop on a child with the rows `value`:
\* .iloc[0] raises IndexError when there is no row; otherwise the first row,
\* converted when vectorization is true, is appended to proc_ls.
LoopBody(proc_ls, value, vectorization) ==
    IF Len(value) = 0 THEN [raised |-> TRUE, proc_ls |-> proc_ls]
    ELSE [raised |-> FALSE,
          proc_ls |-> Append(proc_ls, IF vectorization
                                        THEN SuperOp(FirstValue(value))
                                        ELSE FirstValue(value))]

InitExtract ==
    /\ pc = "start"
    /\ args \in [experiment_data : SeqsUpTo(AnalysisValues, MaxChildren),
                 vectorization : BOOLEAN]
    /\ loc = <<>>
    /\ ret = NoValue

\* lines 18-19, and the first value of i
ExtractInit ==
    /\ pc = "start"
    /\ loc' = [proc_ls |-> <<>>, data_ls |-> args.experiment_data, i |-> 0]
    /\ pc' = "loop"
    /\ UNCHANGED <<args, ret>>

\* lines 20-27: a pass that appends
ExtractStep ==
    /\ pc = "loop"
    /\ loc.i < Len(loc.data_ls)
    /\ LET r == LoopBody(loc.proc_ls, loc.data_ls[loc.i + 1], args.vectorization)
       IN  /\ ~r.raised
           /\ loc' = [loc EXCEPT !.proc_ls = r.proc_ls, !.i = @ + 1]
    /\ UNCHANGED <<pc, args, ret>>

\* lines 20-22: a pass that raises; the function returns nothing
ExtractRaise ==
    /\ pc = "loop"
    /\ loc.i < Len(loc.data_ls)
    /\ LoopBody(loc.proc_ls, loc.data_ls[loc.i + 1], args.vectorization).raised
    /\ pc' = "raised"
    /\ UNCHANGED <<args, loc, ret>>

\* line 29
ExtractReturn ==
    /\ pc = "loop"
    /\ loc.i >= Len(loc.data_ls)
    /\ ret' = loc.proc_ls
    /\ pc' = "done"
    /\ UNCHANGED <<args, loc>>

NextExtract ==
    \/ ExtractInit
    \/ ExtractStep
    \/ ExtractRaise
    \/ ExtractReturn

SpecExtract == InitExtract /\ [][NextExtract]_vars

AllHaveValue(data) == \A k \in 1..Len(data) : Len(data[k]) > 0

\* C4: when every child has an analysis value, the output has one entry per
\* child and entry i is the first row of child i, in superoperator form
\* when vectorization is true and as it is otherwise.
C4_Ordering ==
    (pc = "done" /\ AllHaveValue(args.experiment_data)) =>
        /\ Len(ret) = Len(args.experiment_data)
        /\ \A k \in 1..Len(ret) :
              ret[k] = IF args.vectorization
                         THEN Reshuffle(args.experiment_data[k][1])
                         ELSE args.experiment_data[k][1]

C4_Witness ==
    /\ pc = "done"
    /\ Len(ret) = MaxChildren
    /\ args.vectorization
    /\ ret[1] # ret[2]
    /\ \A k \in 1..Len(ret) :
          /\ Len(args.experiment_data[k]) = MaxRows
          /\ args.experiment_data[k][1] # args.experiment_data[k][MaxRows]
          /\ ret[k] # args.experiment_data[k][1]

\* C5: when some child has no analysis value the call raises and returns
\* nothing; a returned sequence has an entry for every child, none skipped.
C5_MissingData ==
    /\ ~AllHaveValue(args.experiment_data) => (pc # "done" /\ ret = NoValue)
    /\ pc = "done" => Len(ret) = Len(args.experiment_data)
    /\ pc = "raised" => ~AllHaveValue(args.experiment_data)
    /\ (~AllHaveValue(args.experiment_data) /\ ~ENABLED NextExtract)
          => pc = "raised"

C5_Witness ==
    /\ pc = "raised"
    /\ ret = NoValue
    /\ Len(args.experiment_data) = MaxChildren
    /\ Len(args.experiment_data[1]) > 0
    /\ Len(loc.proc_ls) = 1

----------------------------------------------------------------------------
(* compute_Drhp (src/post_proc_funcs.py).                                  *)

MaxMaps == 3

MaxCircTime == 2

\* The default of the parameter base_circ_time.
DefaultBaseCircTime == 90

\* An intermediate map with rational entries: the matrix data / den.
\* The identity, the X gate, the completely dephasing channel and the
\* completely depolarizing channel rho -> tr(rho) I/2 (entries 1/2).
IntmdtMaps ==
    { [data |-> PMat(<<1, 2, 3, 4>>), den |-> 1],
      [data |-> PMat(<<4, 3, 2, 1>>), den |-> 1],
      [data |-> PMat(<<1, 0, 0, 4>>), den |-> 1],
      [data |-> Reshuffle(Identity(4)), den |-> 2] }

IdentityMap == [data |-> PMat(<<1, 2, 3, 4>>), den |-> 1]

RECURSIVE ColSumTo(_, _, _)
ColSumTo(A, c, r) == IF r = 0 THEN 0 ELSE Abs(A[r][c]) + ColSumTo(A, c, r - 1)

RECURSIVE MaxColSumTo(_, _)
MaxColSumTo(A, c) ==
    IF c = 0 THEN 0 ELSE Max2(ColSumTo(A, c, Len(A)), MaxColSumTo(A, c - 1))

\* np.linalg.norm(A, ord=1) of a 2-D array: the largest sum of the absolute
\* values of a column.
Norm1(A) == MaxColSumTo(A, Len(A))

\* line 66: (np.linalg.norm(Choi(map), ord=1) - 1) / base_circ_time
Gt(map, base_circ_time) ==
    RatDiv(RatSub(Rat(Norm1(Choi(map.data)), map.den), RatInt(1)),
           RatInt(base_circ_time))

RECURSIVE SumRat(_)
\* sum(gt), line 67
SumRat(gt) ==
    IF Len(gt) = 0 THEN RatInt(0)
    ELSE RatAdd(SumRat(SubSeq(gt, 1, Len(gt) - 1)), gt[Len(gt)])

InitDrhp ==
    /\ pc = "start"
    /\ args \in [intmdt_map_ls : SeqsUpTo(IntmdtMaps, MaxMaps),
                 base_circ_time : (1..MaxCircTime) \cup {DefaultBaseCircTime}]
    /\ loc = <<>>
    /\ ret = NoValue

\* line 64, and the first map of the loop
DrhpInit ==
    /\ pc = "start"
    /\ loc' = [gt |-> <<>>, k |-> 0, Nrhp |-> NoValue, Drhp |-> NoValue]
    /\ pc' = "loop"
    /\ UNCHANGED <<args, ret>>

\* lines 65-66: one pass of the loop
DrhpAppend ==
    /\ pc = "loop"
    /\ loc.k < Len(args.intmdt_map_ls)
    /\ loc' = [loc EXCEPT
                 !.gt = Append(@, Gt(args.intmdt_map_ls[loc.k + 1],
                                     args.base_circ_time)),
                 !.k = @ + 1]
    /\ UNCHANGED <<pc, args, ret>>

\* lines 67-68
DrhpNormalize ==
    /\ pc = "loop"
    /\ loc.k >= Len(args.intmdt_map_ls)
    /\ LET Nrhp == SumRat(loc.gt)
       IN  loc' = [loc EXCEPT !.Nrhp = Nrhp,
                              !.Drhp = RatDiv(Nrhp, RatAdd(RatInt(1), Nrhp))]
    /\ pc' = "return"
    /\ UNCHANGED <<args, ret>>

\* line 69
DrhpReturn ==
    /\ pc = "return"
    /\ ret' = loc.Drhp
    /\ pc' = "done"
    /\ UNCHANGED <<args, loc>>

NextDrhp ==
    \/ DrhpInit
    \/ DrhpAppend
    \/ DrhpNormalize
    \/ DrhpReturn

SpecDrhp == InitDrhp /\ [][NextDrhp]_vars

\* The sum over the maps up to k of (norm(Choi(map)) - 1) / base_circ_time.
RECURSIVE NrhpOf(_, _, _)
NrhpOf(maps, base_circ_time, k) ==
    IF k = 0 THEN RatInt(0)
    ELSE RatAdd(NrhpOf(maps, base_circ_time, k - 1),
                Rat(Norm1(Choi(maps[k].data)) - maps[k].den,
                    maps[k].den * base_circ_time))

\* C8: the returned D is N / (1 + N), is a number of [0, 1) whatever the
\* maps and the positive base_circ_time (no division by zero, no negative
\* value), and is 0 when every map is the identity superoperator.
C8_Range ==
    pc = "done" =>
        LET N == NrhpOf(args.intmdt_map_ls, args.base_circ_time,
                        Len(args.intmdt_map_ls))
        IN  /\ ret = RatDiv(N, RatAdd(RatInt(1), N))
            /\ RatAdd(RatInt(1), N).n # 0
            /\ IsFinite(ret)
            /\ RatLe(RatInt(0), ret)
            /\ RatLt(ret, RatInt(1))
            /\ (\A k \in 1..Len(args.intmdt_map_ls) :
                    args.intmdt_map_ls[k] = IdentityMap) => ret = RatInt(0)

\* The part of C8 that the code satisfies: D = N / (1 + N).
C8_Formula ==
    pc = "done" =>
        LET N == NrhpOf(args.intmdt_map_ls, args.base_circ_time,
                        Len(args.intmdt_map_ls))
        IN  ret = RatDiv(N, RatAdd(RatInt(1), N))

\* The scenario of the documentation: three identity maps, base_circ_time
\* 90; the code returns 1/31.
C8_IdentityScenario ==
    (/\ pc = "done"
     /\ args.intmdt_map_ls = <<IdentityMap, IdentityMap, IdentityMap>>
     /\ args.base_circ_time = DefaultBaseCircTime) => ret = RatInt(0)

----------------------------------------------------------------------------
(* trace_distance (src/non_markovianity_test.py).                          *)

MaxEntry == 1

\* The 2 x 2 matrices with entries 0..MaxEntry.
Mats2 == [1..2 -> [1..2 -> 0..MaxEntry]]

\* Density matrices of one qubit with entries in sixths: |0><0|, |1><1|,
\* the maximally mixed state, and two states with real coherences.
Rho0 == [data |-> <<<<6, 0>>, <<0, 0>>>>, den |-> 6]

Rho1 == [data |-> <<<<0, 0>>, <<0, 6>>>>, den |-> 6]

RhoMixed == [data |-> <<<<3, 0>>, <<0, 3>>>>, den |-> 6]

RhoA == [data |-> <<<<5, 2>>, <<2, 1>>>>, den |-> 6]

RhoB == [data |-> <<<<1, -2>>, <<-2, 5>>>>, den |-> 6]

DensityMats == {Rho0, Rho1, RhoMixed, RhoA, RhoB}

\* The arrays with rational entries data / den.
Scale(A, k) == [r \in 1..Len(A) |-> [c \in 1..Len(A) |-> k * A[r][c]]]

\* rho1 - rho2, line 97
ArraySub(rho1, rho2) ==
    [data |-> MatSub(Scale(rho1.data, rho2.den), Scale(rho2.data, rho1.den)),
     den |-> rho1.den * rho2.den]

\* lines 94-97: 0.5 * np.linalg.norm(rho1 - rho2, ord=1)
trace_distance(rho1, rho2) ==
    LET diff == ArraySub(rho1, rho2)
    IN  RatMul(Rat(1, 2), Rat(Norm1(diff.data), diff.den))

InitTraceDistance ==
    /\ pc = "start"
    /\ args \in [rho1 : {[data |-> M, den |-> 1] : M \in Mats2} \cup DensityMats,
                 rho2 : {[data |-> M, den |-> 1] : M \in Mats2} \cup DensityMats]
    /\ loc = <<>>
    /\ ret = NoValue

\* line 97
TraceDistanceReturn ==
    /\ pc = "start"
    /\ ret' = trace_distance(args.rho1, args.rho2)
    /\ pc' = "done"
    /\ UNCHANGED <<args, loc>>

NextTraceDistance == TraceDistanceReturn

SpecTraceDistance == InitTraceDistance /\ [][NextTraceDistance]_vars

RECURSIVE SumSqTo(_, _, _)
SumSqTo(A, r, c) ==
    IF r = 0 THEN 0
    ELSE IF c = 0 THEN SumSqTo(A, r - 1, Len(A))
    ELSE A[r][c] * A[r][c] + SumSqTo(A, r, c - 1)

\* The square of the trace (nuclear) norm of a real 2 x 2 matrix A with
\* singular values s1, s2:
\*   (s1 + s2)^2 = s1^2 + s2^2 + 2 s1 s2 = ||A||_F^2 + 2 |det A|.
NuclearNormSq2(A) == SumSqTo(A, Len(A), Len(A)) + 2 * Abs(Det(A))

\* x is half the trace norm of the array diff.
IsHalfTraceNorm(x, diff) ==
    /\ x.n >= 0
    /\ 4 * x.n * x.n * diff.den * diff.den = NuclearNormSq2(diff.data) * x.d * x.d

\* C7: trace_distance returns half the trace norm (the sum of the singular
\* values) of rho1 - rho2.
C7_HalfTraceNorm ==
    pc = "done" => IsHalfTraceNorm(ret, ArraySub(args.rho1, args.rho2))

\* The input of C7's report: |0><0| and |1><1|, at trace distance 1, for
\* which the code returns 1/2.
C7_OrthogonalStates ==
    (pc = "done" /\ args.rho1 = Rho0 /\ args.rho2 = Rho1) => ret = RatInt(1)

----------------------------------------------------------------------------
(* second_non_markovian_helper_function (src/non_markovianity_test.py).    *)

MaxTimes == 2

\* The pairs of states a basis holds at one time.
StatePairs == { <<Rho0, Rho1>>, <<RhoA, RhoB>>, <<RhoMixed, RhoMixed>> }

InitHelper ==
    /\ pc = "start"
    /\ args \in {[states |-> s] : s \in [1..3 -> SeqsUpTo(StatePairs, MaxTimes)]}
    /\ loc = <<>>
    /\ ret = NoValue

\* line 107, and the first basis of the loop of line 109
HelperInit ==
    /\ pc = "start"
    /\ loc' = [basis_values |-> <<RatInt(0), RatInt(0), RatInt(0)>>,
               basis |-> 0, n |-> 0, i |-> 0]
    /\ pc' = "basis"
    /\ UNCHANGED <<args, ret>>

\* lines 109-110: the next basis
HelperBasis ==
    /\ pc = "basis"
    /\ loc.basis < Len(args.states)
    /\ loc' = [loc EXCEPT !.n = Len(args.states[loc.basis + 1]), !.i = 0]
    /\ pc' = "times"
    /\ UNCHANGED <<args, ret>>

\* lines 111-115: one pass of the inner loop
HelperPass ==
    /\ pc = "times"
    /\ loc.i < loc.n - 1
    /\ LET basis_states == args.states[loc.basis + 1]
           before == trace_distance(basis_states[loc.i + 1][1],
                                    basis_states[loc.i + 1][2])
           after == trace_distance(basis_states[loc.i + 2][1],
                                   basis_states[loc.i + 2][2])
           sigma == RatSub(after, before)
       IN  loc' = [loc EXCEPT
                     !.basis_values[loc.basis + 1] =
                         RatAdd(@, RatMax(sigma, RatInt(0))),
                     !.i = @ + 1]
    /\ UNCHANGED <<pc, args, ret>>

\* line 111 exhausted: on to the next basis
HelperEndBasis ==
    /\ pc = "times"
    /\ loc.i >= loc.n - 1
    /\ loc' = [loc EXCEPT !.basis = @ + 1]
    /\ pc' = "basis"
    /\ UNCHANGED <<args, ret>>

\* line 116
HelperReturn ==
    /\ pc = "basis"
    /\ loc.basis >= Len(args.states)
    /\ ret' = RatMax(loc.basis_values[1],
                     RatMax(loc.basis_values[2], loc.basis_values[3]))
    /\ pc' = "done"
    /\ UNCHANGED <<args, loc>>

NextHelper ==
    \/ HelperInit
    \/ HelperBasis
    \/ HelperPass
    \/ HelperEndBasis
    \/ HelperReturn

SpecHelper == InitHelper /\ [][NextHelper]_vars

\* The trace distance of a pair of states, half the trace norm of their
\* difference, where it is rational ...
HasRationalDistance(pair) ==
    IsSquare(NuclearNormSq2(ArraySub(pair[1], pair[2]).data))

TrueDistance(pair) ==
    LET diff == ArraySub(pair[1], pair[2])
    IN  Rat(Isqrt(NuclearNormSq2(diff.data)), 2 * diff.den)

\* ... and its square, which always is.
TrueDistanceSq(pair) ==
    LET diff == ArraySub(pair[1], pair[2])
    IN  Rat(NuclearNormSq2(diff.data), 4 * diff.den * diff.den)

\* The sum over consecutive times up to i of max(d_{i+1} - d_i, 0), for the
\* distances d_1, d_2, ... of one basis.
RECURSIVE Increase(_, _)
Increase(d, i) ==
    IF i <= 0 THEN RatInt(0)
    ELSE RatAdd(Increase(d, i - 1), RatMax(RatSub(d[i + 1], d[i]), RatInt(0)))

\* The largest total increase over the 3 bases.
MaxIncrease(distances) ==
    RatMax(Increase(distances[1], Len(distances[1]) - 1),
           RatMax(Increase(distances[2], Len(distances[2]) - 1),
                  Increase(distances[3], Len(distances[3]) - 1)))

TrueDistances(states) ==
    [b \in 1..3 |-> [k \in 1..Len(states[b]) |-> TrueDistance(states[b][k])]]

ReturnedDistances(states) ==
    [b \in 1..3 |->
        [k \in 1..Len(states[b]) |->
            trace_distance(states[b][k][1], states[b][k][2])]]

\* C6: the result is the largest, over the 3 bases, of the summed increases
\* of the trace distance: never negative, 0 when the trace distance never
\* increases in any basis.
C6_MaxIncrease ==
    pc = "done" =>
        /\ RatLe(RatInt(0), ret)
        /\ (\A b \in 1..3 : \A i \in 1..(Len(args.states[b]) - 1) :
                RatLe(TrueDistanceSq(args.states[b][i + 1]),
                      TrueDistanceSq(args.states[b][i]))) => ret = RatInt(0)
        /\ (\A b \in 1..3 : \A i \in 1..Len(args.states[b]) :
                HasRationalDistance(args.states[b][i]))
               => ret = MaxIncrease(TrueDistances(args.states))

\* The aggregation alone, in terms of the values trace_distance returns.
C6_Aggregation ==
    pc = "done" => ret = MaxIncrease(ReturnedDistances(args.states))

----------------------------------------------------------------------------
(* first_non_markovianity_measure and its helpers                          *)
(* (src/non_markovianity_test.py).                                         *)

MaxSteps == 3

MaxDeltaT == 2

\* The largest r with r * r <= x.
FloorSqrt(x) == CHOOSE r \in 0..64 : r * r <= x /\ x < (r + 1) * (r + 1)

RECURSIVE VecDotTo(_, _, _)
VecDotTo(u, v, k) == IF k = 0 THEN 0 ELSE u[k] * v[k] + VecDotTo(u, v, k - 1)

VecDot(u, v) == VecDotTo(u, v, Len(u))

\* The integer vectors that can be row k of a symmetric X with X X = T:
\* their squared length is T[k][k].
SqrtRows(T, k) ==
    LET b == FloorSqrt(T[k][k])
    IN  {v \in [1..Len(T) -> (-b)..b] : VecDot(v, v) = T[k][k]}

\* The symmetric integer matrices X with X X = T whose first rows are
\* `rows`: row k agrees with the columns of the rows above it and has the
\* scalar products with them that T gives.
RECURSIVE SqrtExtend(_, _)
SqrtExtend(T, rows) ==
    IF Len(rows) = Len(T) THEN {rows}
    ELSE LET k == Len(rows) + 1
         IN  UNION { SqrtExtend(T, Append(rows, v)) :
                       v \in {w \in SqrtRows(T, k) :
                                \A m \in 1..(k - 1) :
                                    /\ w[m] = rows[m][k]
                                    /\ VecDot(w, rows[m]) = T[k][m]} }

\* The sub-matrix of A on the rows and columns idx (an increasing sequence).
SubMatrix(A, idx) == [r \in 1..Len(idx) |-> [c \in 1..Len(idx) |-> A[idx[r]][idx[c]]]]

\* A symmetric matrix is positive semi-definite when no principal minor is
\* negative.
IsPSD(X) ==
    \A idx \in {q \in NonEmptySeqsUpTo(1..Len(X), Len(X)) :
                  \A r \in 1..(Len(q) - 1) : q[r] < q[r + 1]} :
        Det(SubMatrix(X, idx)) >= 0

\* scipy.linalg.sqrtm of a positive semi-definite T: its one positive
\* semi-definite square root.
Sqrtm(T) == CHOOSE X \in SqrtExtend(T, <<>>) : IsPSD(X)

\* lines 15-17, on the array data / den: the trace of the square root of
\* matrix . matrix^dagger (the entries are real).
trace_norm(matrix) ==
    LET temp == MatMul(matrix.data, Transpose(matrix.data))
    IN  Rat(Trace(Sqrtm(temp)), matrix.den)

\* lines 33-35: the outer product of the vector of dim entries 1/sqrt(dim)
\* with itself, every entry 1/dim.
get_maximally_entagled_density_matrix(n) ==
    LET dim == Pow(2, n)
    IN  [data |-> [r \in 1..dim |-> [c \in 1..dim |-> 1]], den |-> dim]

\* np.kron(A, B)
Kron(A, B) ==
    LET m == Len(B)
    IN  [R \in 1..(Len(A) * m) |->
            [C \in 1..(Len(A) * m) |->
                A[((R - 1) \div m) + 1][((C - 1) \div m) + 1]
                    * B[((R - 1) % m) + 1][((C - 1) % m) + 1]]]

\* line 55
get_extended_choi_matrix_operators(kraus_map) ==
    [k \in 1..Len(kraus_map) |-> Kron(Identity(2), kraus_map[k])]

\* lines 38-42: the sum over the operators of op . rho . op^dagger
RECURSIVE ApplyTo(_, _, _)
ApplyTo(operators, rho, k) ==
    IF k = 0 THEN Zeros(Len(rho))
    ELSE MatAdd(ApplyTo(operators, rho, k - 1),
                MatMul(MatMul(operators[k], rho), Transpose(operators[k])))

apply_kraus_map(operators, rho) ==
    [data |-> ApplyTo(operators, rho.data, Len(operators)), den |-> rho.den]

\* Kraus operators of 0 qubits (1 x 1) and of one qubit (2 x 2).
One1 == <<<<1>>>>

I2 == <<<<1, 0>>, <<0, 1>>>>

X2 == <<<<0, 1>>, <<1, 0>>>>

P0 == <<<<1, 0>>, <<0, 0>>>>

P1 == <<<<0, 0>>, <<0, 1>>>>

\* Kraus maps on operating_qubits qubits: the identity, the X gate, the
\* complete dephasing, and maps {1, 1} and {I, X} that double the trace.
KrausMaps(operating_qubits) ==
    IF operating_qubits = 0 THEN { <<One1>>, <<One1, One1>> }
    ELSE { <<I2>>, <<X2>>, <<P0, P1>>, <<I2, X2>> }

\* lines 85-87: g for one Kraus map
ComputeG(kraus_map, entagled_rho) ==
    LET new_kraus_operators == get_extended_choi_matrix_operators(kraus_map)
        new_rho == apply_kraus_map(new_kraus_operators, entagled_rho)
    IN  RatSub(trace_norm(new_rho), RatInt(1))

\* ComputeG of every Kraus map of the model, as pairs <<arguments, value>>.
GTable ==
    { <<x, ComputeG(x[1], x[2])>> :
        x \in UNION { KrausMaps(q) \X {get_maximally_entagled_density_matrix(q + 1)} :
                        q \in {0, 1} } }

GOfMap(kraus_map, entagled_rho) ==
    (CHOOSE p \in GTable : p[1] = <<kraus_map, entagled_rho>>)[2]

AccumulateTimesDeltaT(G, g, delta_t) == RatAdd(G, RatMul(g, RatInt(delta_t)))

\* line 88: G += g
Accumulate(G, g, delta_t) == RatAdd(G, g)

InitMeasure ==
    /\ pc = "start"
    /\ args \in UNION { [kraus_map_list : SeqsUpTo(KrausMaps(q), MaxSteps),
                         operating_qubits : {q},
                         delta_t : 1..MaxDeltaT] : q \in {0, 1} }
    /\ loc = <<>>
    /\ ret = NoValue

\* lines 82-83, and the first map of the loop
MeasureInit ==
    /\ pc = "start"
    /\ loc' = [entagled_rho |->
                   get_maximally_entagled_density_matrix(args.operating_qubits + 1),
               G |-> RatInt(0), k |-> 0]
    /\ pc' = "loop"
    /\ UNCHANGED <<args, ret>>

\* lines 84-88: one pass of the loop
MeasurePass ==
    /\ pc = "loop"
    /\ loc.k < Len(args.kraus_map_list)
    /\ LET g == GOfMap(args.kraus_map_list[loc.k + 1], loc.entagled_rho)
       IN  loc' = [loc EXCEPT !.G = Accumulate(@, g, args.delta_t), !.k = @ + 1]
    /\ UNCHANGED <<pc, args, ret>>

\* line 89
MeasureReturn ==
    /\ pc = "loop"
    /\ loc.k >= Len(args.kraus_map_list)
    /\ ret' = RatDiv(loc.G, RatAdd(loc.G, RatInt(1)))
    /\ pc' = "done"
    /\ UNCHANGED <<args, loc>>

NextMeasure ==
    \/ MeasureInit
    \/ MeasurePass
    \/ MeasureReturn

SpecMeasure == InitMeasure /\ [][NextMeasure]_vars

\* The plain sum over the maps up to k of (trace norm - 1).
RECURSIVE PlainSum(_, _, _)
PlainSum(kraus_map_list, operating_qubits, k) ==
    IF k = 0 THEN RatInt(0)
    ELSE RatAdd(PlainSum(kraus_map_list, operating_qubits, k - 1),
                GOfMap(kraus_map_list[k],
                       get_maximally_entagled_density_matrix(operating_qubits + 1)))

\* C9: whatever delta_t is, the result is G / (G + 1) with G the plain sum
\* of (trace norm - 1) over the sequence, with no factor delta_t.
C9_IgnoresDeltaT ==
    pc = "done" =>
        LET G == PlainSum(args.kraus_map_list, args.operating_qubits,
                          Len(args.kraus_map_list))
        IN  ret = RatDiv(G, RatAdd(G, RatInt(1)))

C9_Witness ==
    /\ pc = "done"
    /\ args.delta_t > 1
    /\ args.operating_qubits = 1
    /\ Len(args.kraus_map_list) = MaxSteps
    /\ ret = Rat(2, 3)

----------------------------------------------------------------------------
(* gen_delay_circ_ls (src/gen_funcs.py).                                   *)
(*                                                                         *)
(* dt and t are multiples of 0.1 up to the rounding of doubles, and are    *)
(* kept here in tenths.  Where the doubles decide otherwise than the exact *)
(* tenths would, for total_us_time <= 3 and num_maps <= 24, is listed in   *)
(* DoubleRoundsUp and SumExceeds.  A circuit is its delay: prepare_state   *)
(* is called with start_state in the place of num_qubits and its own       *)
(* start_state left at '0', so that it adds no gate and cannot raise.      *)

MaxNumMaps == 21

MaxTotalTime == 2

\* The circuits the model lets a call build: a call with dt = 0 never leaves
\* its loop.
MaxCircuits == 23

IsPowerOf2(n) == \E e \in 0..10 : Pow(2, e) = n

\* The <<total_us_time, num_maps>> whose quotient lies half-way between two
\* tenths and is no double, and whose double lies above it
\* (1/20 is 0.05000000000000000277; 3/20 is 0.1499999999999999944).
DoubleRoundsUp == { <<1, 20>> }

\* line 144: round(total_us_time / num_maps, 1), in tenths.  Python rounds
\* the double correctly: to the nearest tenth, and a double that lies
\* exactly half-way (it then has a power of 2 as denominator) to the even
\* tenth.
RoundTenths(total_us_time, num_maps) ==
    LET f == (10 * total_us_time) \div num_maps
        r == (10 * total_us_time) % num_maps
    IN  IF 2 * r < num_maps THEN f
        ELSE IF 2 * r > num_maps THEN f + 1
        ELSE IF IsPowerOf2(num_maps \div GCD(total_us_time, num_maps))
             THEN (IF f % 2 = 0 THEN f ELSE f + 1)
        ELSE IF <<total_us_time, num_maps>> \in DoubleRoundsUp THEN f + 1
        ELSE f

\* The <<dt in tenths, total_us_time>> for which the double sum dt + dt + ...
\* that is total_us_time in exact arithmetic exceeds it
\* (20 times 0.1 is 2.0000000000000004, 30 times 0.1 is 3.0000000000000013,
\* 15 times 0.2 is 3.0000000000000004).
SumExceeds == { <<1, 2>>, <<1, 3>>, <<2, 3>> }

\* line 146: t <= total_us_time, for t the double sum that is `t` tenths in
\* exact arithmetic.
WhileCondition(t, dt, total_us_time) ==
    \/ t < 10 * total_us_time
    \/ t = 10 * total_us_time /\ <<dt, total_us_time>> \notin SumExceeds

InitDelay ==
    /\ pc = "start"
    /\ args \in [num_qubits : {1},
                 num_maps : 1..MaxNumMaps,
                 total_us_time : 1..MaxTotalTime,
                 start_state : {"0"}]
    /\ loc = <<>>
    /\ ret = NoValue

\* lines 143-145
DelayInit ==
    /\ pc = "start"
    /\ LET dt == RoundTenths(args.total_us_time, args.num_maps)
       IN  loc' = [qc_ls |-> <<>>, dt |-> dt, t |-> dt]
    /\ pc' = "while"
    /\ UNCHANGED <<args, ret>>

\* lines 146-151: one pass of the loop
DelayAppend ==
    /\ pc = "while"
    /\ WhileCondition(loc.t, loc.dt, args.total_us_time)
    /\ Len(loc.qc_ls) < MaxCircuits
    /\ loc' = [loc EXCEPT !.qc_ls = Append(@, loc.t), !.t = @ + loc.dt]
    /\ UNCHANGED <<pc, args, ret>>

\* line 152
DelayReturn ==
    /\ pc = "while"
    /\ ~WhileCondition(loc.t, loc.dt, args.total_us_time)
    /\ ret' = loc.qc_ls
    /\ pc' = "done"
    /\ UNCHANGED <<args, loc>>

NextDelay ==
    \/ DelayInit
    \/ DelayAppend
    \/ DelayReturn

SpecDelay == InitDelay /\ [][NextDelay]_vars

\* C10: the call ends, with exactly num_maps circuits, of the strictly
\* increasing delays dt, 2 dt, ..., the last not above total_us_time.  A
\* call that ends never holds more than num_maps circuits on its way.
C10_ExactlyNumMaps ==
    /\ pc = "while" => Len(loc.qc_ls) <= args.num_maps
    /\ pc = "done" =>
          /\ Len(ret) = args.num_maps
          /\ \A k \in 1..Len(ret) : ret[k] = k * loc.dt
          /\ \A k \in 1..(Len(ret) - 1) : ret[k] < ret[k + 1]
          /\ ret[Len(ret)] <= 10 * args.total_us_time

\* A call with dt = 0 stays in its loop for ever: t is never above
\* total_us_time.
C10_PositiveStep == pc = "while" => loc.dt > 0

\* The parts of C10 that hold of every call that ends.
C10_Delays ==
    pc = "done" =>
        /\ \A k \in 1..Len(ret) : ret[k] = k * loc.dt
        /\ \A k \in 1..(Len(ret) - 1) : ret[k] < ret[k + 1]
        /\ Len(ret) > 0 => ret[Len(ret)] <= 10 * args.total_us_time

====
